---- MODULE Spec2Model ----
(***************************************************************************)
(* Model of dm_icebergsink (src/main.rs): parse_sd_file, the event loop    *)
(* that assembles SdRecord rows from the markup reader's events, and       *)
(* build_recordbatch, which transposes the rows into a columnar batch,     *)
(* and the part of main that connects them.                                *)
(*                                                                         *)
(* Text is modelled as a sequence of one-character strings, a byte as a    *)
(* number 0..255, Option<T> as a sequence of length 0 (None) or 1 (Some),  *)
(* and Result<T> as a record [ok, val, err].                               *)
(***************************************************************************)
EXTENDS Integers, Sequences, FiniteSets, TLC

(***************************************************************************)
(* Bounds of the model.                                                    *)
(***************************************************************************)
\* most events one parse reads from the reader
MaxEvents == 6
\* most rows of an input handed directly to build_recordbatch
MaxRows == 2

(***************************************************************************)
(* Option and Result.                                                      *)
(***************************************************************************)
None == <<>>
Some(x) == <<x>>
Ok(v) == [ok |-> TRUE, val |-> v, err |-> "-"]
Err(kind) == [ok |-> FALSE, val |-> <<>>, err |-> kind]

(***************************************************************************)
(* Characters.                                                             *)
(***************************************************************************)
DecDigits == <<"0", "1", "2", "3", "4", "5", "6", "7", "8", "9">>
HexLower == <<"a", "b", "c", "d", "e", "f">>
HexUpper == <<"A", "B", "C", "D", "E", "F">>
\* the marker of a byte sequence that is not UTF-8
BadUtf8 == "\\xff"
IsWhitespace(c) == c \in {" ", "\t", "\n", "\r"}

IndexOf(seq, c) == CHOOSE i \in 1..Len(seq) : seq[i] = c
InSeq(seq, c) == \E i \in 1..Len(seq) : seq[i] = c
IsDecDigit(c) == InSeq(DecDigits, c)
DecVal(c) == IndexOf(DecDigits, c) - 1
IsHexDigit(c) == InSeq(DecDigits, c) \/ InSeq(HexLower, c) \/ InSeq(HexUpper, c)
HexVal(c) ==
    IF InSeq(DecDigits, c) THEN IndexOf(DecDigits, c) - 1
    ELSE IF InSeq(HexLower, c) THEN IndexOf(HexLower, c) + 9
    ELSE IndexOf(HexUpper, c) + 9

Tail2(s) == SubSeq(s, 3, Len(s))
Last(s) == s[Len(s)]
Front(s) == SubSeq(s, 1, Len(s) - 1)

(***************************************************************************)
(* str::from_utf8 and str::trim (line 105-107).                            *)
(***************************************************************************)
from_utf8(bytes) ==
    IF InSeq(bytes, BadUtf8) THEN Err("utf8") ELSE Ok(bytes)

RECURSIVE trim_start(_)
trim_start(s) ==
    IF s # <<>> /\ IsWhitespace(Head(s)) THEN trim_start(Tail(s)) ELSE s

RECURSIVE trim_end(_)
trim_end(s) ==
    IF s # <<>> /\ IsWhitespace(Last(s)) THEN trim_end(Front(s)) ELSE s

trim(s) == trim_end(trim_start(s))

(***************************************************************************)
(* Vec::from_hex (line 110): odd length is rejected first, then every pair *)
(* of digits gives one byte, the first digit the high nibble.              *)
(***************************************************************************)
RECURSIVE HexPairs(_)
HexPairs(s) ==
    IF s = <<>> THEN Ok(<<>>)
    ELSE IF ~IsHexDigit(s[1]) \/ ~IsHexDigit(s[2]) THEN Err("hex")
    ELSE LET rest == HexPairs(Tail2(s))
         IN  IF rest.ok
             THEN Ok(<<16 * HexVal(s[1]) + HexVal(s[2])>> \o rest.val)
             ELSE rest

from_hex(s) ==
    IF Len(s) % 2 # 0 THEN Err("hex") ELSE HexPairs(s)

(***************************************************************************)
(* str::parse::<i64> and str::parse::<i32> (lines 81, 86, 91): an optional *)
(* sign, then at least one decimal digit and nothing else; a value outside *)
(* the type's range is an error. The range test is made on the digits, so  *)
(* that it is the range of the type's width.                               *)
(***************************************************************************)
I64MaxDigits == <<9, 2, 2, 3, 3, 7, 2, 0, 3, 6, 8, 5, 4, 7, 7, 5, 8, 0, 7>>
I64MinDigits == <<9, 2, 2, 3, 3, 7, 2, 0, 3, 6, 8, 5, 4, 7, 7, 5, 8, 0, 8>>
I32MaxDigits == <<2, 1, 4, 7, 4, 8, 3, 6, 4, 7>>
I32MinDigits == <<2, 1, 4, 7, 4, 8, 3, 6, 4, 8>>

RECURSIVE StripZeros(_)
StripZeros(d) ==
    IF Len(d) > 1 /\ d[1] = 0 THEN StripZeros(Tail(d)) ELSE d

\* d <= lim, both without leading zeros
DigitsLeq(d, lim) ==
    \/ Len(d) < Len(lim)
    \/ /\ Len(d) = Len(lim)
       /\ \/ d = lim
          \/ \E i \in 1..Len(d) :
                /\ d[i] < lim[i]
                /\ \A j \in 1..(i - 1) : d[j] = lim[j]

RECURSIVE DigitsValue(_)
DigitsValue(d) ==
    IF d = <<>> THEN 0 ELSE 10 * DigitsValue(Front(d)) + Last(d)

parse_int(s, maxDigits, minDigits) ==
    LET neg == s # <<>> /\ s[1] = "-"
        signed == s # <<>> /\ s[1] \in {"-", "+"}
        body == IF signed THEN Tail(s) ELSE s
    IN  IF body = <<>> THEN Err("parse_int")
        ELSE IF \E i \in 1..Len(body) : ~IsDecDigit(body[i]) THEN Err("parse_int")
        ELSE LET d == StripZeros([i \in 1..Len(body) |-> DecVal(body[i])])
             IN  IF ~DigitsLeq(d, IF neg THEN minDigits ELSE maxDigits)
                 THEN Err("parse_int")
                 ELSE Ok(IF neg THEN 0 - DigitsValue(d) ELSE DigitsValue(d))

parse_i64(s) == parse_int(s, I64MaxDigits, I64MinDigits)
\* parse_i32 dropping the sign
parse_i32_unsigned(s) ==
    parse_int(IF s # <<>> /\ s[1] = "-" THEN Tail(s) ELSE s, I32MaxDigits, I32MinDigits)
parse_i32(s) == parse_int(s, I32MaxDigits, I32MinDigits)

(***************************************************************************)
(* Attribute::unescape_value (lines 65, 75): the predefined entities are   *)
(* replaced by their character; an unknown or unterminated entity is an    *)
(* error.                                                                  *)
(***************************************************************************)
Entity(name) ==
    CASE name = <<"l", "t">> -> Some("<")
      [] name = <<"g", "t">> -> Some(">")
      [] name = <<"a", "m", "p">> -> Some("&")
      [] name = <<"a", "p", "o", "s">> -> Some("'")
      [] name = <<"q", "u", "o", "t">> -> Some("\"")
      [] OTHER -> None

RECURSIVE unescape_value(_)
unescape_value(s) ==
    IF s = <<>> THEN Ok(<<>>)
    ELSE IF Head(s) # "&"
    THEN LET rest == unescape_value(Tail(s))
         IN  IF rest.ok THEN Ok(<<Head(s)>> \o rest.val) ELSE rest
    ELSE IF ~InSeq(s, ";") THEN Err("unescape")
    ELSE LET semi == CHOOSE i \in 1..Len(s) :
                        s[i] = ";" /\ \A j \in 1..(i - 1) : s[j] # ";"
             ent == Entity(SubSeq(s, 2, semi - 1))
             rest == unescape_value(SubSeq(s, semi + 1, Len(s)))
         IN  IF ent = None THEN Err("unescape")
             ELSE IF rest.ok THEN Ok(ent \o rest.val) ELSE rest

(***************************************************************************)
(* SdRecord and new_sd_record (lines 17-44).                               *)
(***************************************************************************)
\* new_sd_record with the optional fields at the zero of their type
new_sd_record_zeroed ==
    [device_id |-> <<>>, ts |-> 0, rssi |-> 0, snr |-> 0, phy |-> <<>>,
     frame_type |-> <<>>, payload |-> <<>>,
     mioty_qi_1 |-> Some(0), mioty_qi_2 |-> Some(0), mioty_qi_3 |-> Some(0)]
new_sd_record ==
    [device_id |-> <<>>, ts |-> 0, rssi |-> 0, snr |-> 0, phy |-> <<>>,
     frame_type |-> <<>>, payload |-> <<>>,
     mioty_qi_1 |-> None, mioty_qi_2 |-> None, mioty_qi_3 |-> None]

(***************************************************************************)
(* Attributes of a start tag. e.attributes() yields one item per attribute *)
(* of the tag, in document order, an item being the attribute or an error; *)
(* the iterator checks the keys for uniqueness (its default, which the     *)
(* code leaves on), so an attribute whose key it has yielded before is an  *)
(* error item; .flatten() drops the errors (lines 62, 72).                 *)
(***************************************************************************)
Attr(k, v) == [ok |-> TRUE, key |-> k, val |-> v]
AttrError == [ok |-> FALSE, key |-> "", val |-> <<>>]
attributes(tag) ==
    [i \in 1..Len(tag) |->
        IF tag[i].ok /\ \E j \in 1..(i - 1) : tag[j].ok /\ tag[j].key = tag[i].key
        THEN AttrError ELSE tag[i]]
flatten(attrs) == SelectSeq(attrs, LAMBDA a : a.ok)
\* the attributes the loops of lines 62 and 72 run over
Yielded(tag) == flatten(attributes(tag))

\* the result of a handler: the local it updates, and the error it returns
Step(v) == [ok |-> TRUE, v |-> v, err |-> "-"]
Fail(v, kind) == [ok |-> FALSE, v |-> v, err |-> kind]

(***************************************************************************)
(* Event::Start of "sdl" (lines 61-70): every deviceId attribute, in       *)
(* order, overwrites current_device with its unescaped value.              *)
(***************************************************************************)
\* on_start_sdl storing the attribute's raw value
RECURSIVE on_start_sdl_raw(_, _)
on_start_sdl_raw(device, attrs) ==
    IF attrs = <<>> THEN Step(device)
    ELSE IF Head(attrs).key = "deviceId"
    THEN on_start_sdl_raw(Head(attrs).val, Tail(attrs))
    ELSE on_start_sdl_raw(device, Tail(attrs))

\* on_start_sdl clearing the identifier where the tag has no deviceId
on_start_sdl_reset(device, attrs) ==
    LET ids == { i \in 1..Len(attrs) : attrs[i].key = "deviceId" } IN
    IF ids = {} THEN Step(<<>>)
    ELSE LET val == unescape_value(attrs[CHOOSE i \in ids : \A j \in ids : j <= i].val)
         IN  IF val.ok THEN Step(val.val) ELSE Fail(device, val.err)
RECURSIVE on_start_sdl(_, _)
on_start_sdl(device, attrs) ==
    IF attrs = <<>> THEN Step(device)
    ELSE LET attr == Head(attrs) IN
         IF attr.key = "deviceId"
         THEN LET val == unescape_value(attr.val)
              IN  IF val.ok THEN on_start_sdl(val.val, Tail(attrs))
                  ELSE Fail(device, val.err)
         ELSE on_start_sdl(device, Tail(attrs))

(***************************************************************************)
(* Event::Start of "sd" (lines 71-100): every attribute is unescaped, then *)
(* dispatched by key; the first failure returns.                           *)
(***************************************************************************)
\* set_field putting the type's default where the number does not parse
set_field_default(sd, key, val) ==
    CASE key = "ts" ->
            LET n == parse_i64(val)
            IN  Step([sd EXCEPT !.ts = IF n.ok THEN n.val ELSE 0])
      [] key = "rssi" ->
            LET n == parse_i32(val)
            IN  Step([sd EXCEPT !.rssi = IF n.ok THEN n.val ELSE 0])
      [] key = "snr" ->
            LET n == parse_i32(val)
            IN  Step([sd EXCEPT !.snr = IF n.ok THEN n.val ELSE 0])
      [] key = "phy" -> Step([sd EXCEPT !.phy = val])
      [] key = "type" -> Step([sd EXCEPT !.frame_type = val])
      [] OTHER -> Step(sd)

set_field(sd, key, val) ==
    CASE key = "ts" ->
            LET n == parse_i64(val)
            IN  IF n.ok THEN Step([sd EXCEPT !.ts = n.val]) ELSE Fail(sd, n.err)
      [] key = "rssi" ->
            LET n == parse_i32(val)
            IN  IF n.ok THEN Step([sd EXCEPT !.rssi = n.val]) ELSE Fail(sd, n.err)
      [] key = "snr" ->
            LET n == parse_i32(val)
            IN  IF n.ok THEN Step([sd EXCEPT !.snr = n.val]) ELSE Fail(sd, n.err)
      [] key = "phy" -> Step([sd EXCEPT !.phy = val])
      [] key = "type" -> Step([sd EXCEPT !.frame_type = val])
      [] OTHER -> Step(sd)

RECURSIVE on_start_sd(_, _)
on_start_sd(sd, attrs) ==
    IF attrs = <<>> THEN Step(sd)
    ELSE LET attr == Head(attrs)
             val == unescape_value(attr.val)
         IN  IF ~val.ok THEN Fail(sd, val.err)
             ELSE LET r == set_field(sd, attr.key, val.val)
                  IN  IF r.ok THEN on_start_sd(r.v, Tail(attrs)) ELSE r

(***************************************************************************)
(* Event::Text (lines 104-113).                                            *)
(***************************************************************************)
\* on_text leaving the payload alone where the text is not hexadecimal
on_text_skip(sd, bytes) ==
    LET utf == from_utf8(bytes) IN
    IF ~utf.ok THEN Fail(sd, utf.err)
    ELSE LET payload == from_hex(trim(utf.val))
         IN  IF trim(utf.val) # <<>> /\ payload.ok
             THEN Step([sd EXCEPT !.payload = payload.val])
             ELSE Step(sd)

\* on_text adding the decoded bytes to the payload
on_text_append(sd, bytes) ==
    LET utf == from_utf8(bytes) IN
    IF ~utf.ok THEN Fail(sd, utf.err)
    ELSE LET text == trim(utf.val) IN
         IF text # <<>>
         THEN LET payload == from_hex(text)
              IN  IF payload.ok
                  THEN Step([sd EXCEPT !.payload = sd.payload \o payload.val])
                  ELSE Fail(sd, payload.err)
         ELSE Step(sd)
on_text(sd, bytes) ==
    LET utf == from_utf8(bytes) IN
    IF ~utf.ok THEN Fail(sd, utf.err)
    ELSE LET text == trim(utf.val) IN
         IF text # <<>>
         THEN LET payload == from_hex(text)
              IN  IF payload.ok THEN Step([sd EXCEPT !.payload = payload.val])
                  ELSE Fail(sd, payload.err)
         ELSE Step(sd)

(***************************************************************************)
(* Event::End (lines 115-121): only the end of "sd" does anything.         *)
(***************************************************************************)
\* finalize without line 117
finalize_no_device(sd, device) == sd
finalize(sd, device) == [sd EXCEPT !.device_id = device]

\* push at the front
push_front(recs, r) == <<r>> \o recs
push(recs, r) == Append(recs, r)

\* line 116 also taking the end of sdl
is_record_end_any(name) == name \in {"sd", "sdl"}
is_record_end(name) == name = "sd"

(***************************************************************************)
(* The columns of build_recordbatch (lines 159-177), as the arrays they    *)
(* are: a validity bit per slot and, for a primitive array, one value per  *)
(* slot (the type's zero in a null slot); for a string or binary array,    *)
(* the slots' bytes end to end and the offset of each slot's first byte.   *)
(***************************************************************************)
AllValid(n) == [j \in 1..n |-> TRUE]

\* PrimitiveArray::from(Vec<T>), lines 162-164
primitive_array(vals) ==
    [kind |-> "primitive", validity |-> AllValid(Len(vals)),
     values |-> vals, offsets |-> <<>>]

\* option_array with the zero of unwrap_or_default and no validity bits
option_array_sentinel(opts) ==
    [kind |-> "primitive", validity |-> AllValid(Len(opts)),
     values |-> [j \in 1..Len(opts) |-> IF opts[j] # None THEN opts[j][1] ELSE 0],
     offsets |-> <<>>]

\* PrimitiveArray::from(Vec<Option<T>>), lines 174-176
option_array(opts) ==
    [kind |-> "primitive",
     validity |-> [j \in 1..Len(opts) |-> opts[j] # None],
     values |-> [j \in 1..Len(opts) |-> IF opts[j] # None THEN opts[j][1] ELSE 0],
     offsets |-> <<>>]

RECURSIVE Concat(_)
Concat(items) ==
    IF items = <<>> THEN <<>> ELSE Head(items) \o Concat(Tail(items))

\* StringArray::from(Vec<&str>) and BinaryArray::from(Vec<&[u8]>),
\* lines 159-161, 165-173
bytes_array(items) ==
    [kind |-> "bytes", validity |-> AllValid(Len(items)),
     values |-> Concat(items),
     offsets |-> [j \in 1..(Len(items) + 1) |-> Len(Concat(SubSeq(items, 1, j - 1)))]]

array_len(arr) ==
    IF arr.kind = "bytes" THEN Len(arr.offsets) - 1 ELSE Len(arr.values)
null_count(arr) == Cardinality({j \in 1..Len(arr.validity) : ~arr.validity[j]})

\* the schema of lines 142-153
Field(name, type, nullable) == [name |-> name, type |-> type, nullable |-> nullable]
schema ==
    << Field("device_id", "Utf8", FALSE), Field("ts", "Int64", FALSE),
       Field("rssi", "Int32", FALSE), Field("snr", "Int32", FALSE),
       Field("phy", "Utf8", FALSE), Field("frame_type", "Utf8", FALSE),
       Field("payload", "Binary", FALSE), Field("mioty_qi_1", "Float64", TRUE),
       Field("mioty_qi_2", "Int32", TRUE), Field("mioty_qi_3", "Int32", TRUE) >>

column_of(recs, field) == [j \in 1..Len(recs) |-> recs[j][field]]

\* the ten arrays of lines 158-177, in the order they are listed
columns(recs) ==
    << bytes_array(column_of(recs, "device_id")),
       primitive_array(column_of(recs, "ts")),
       primitive_array(column_of(recs, "rssi")),
       primitive_array(column_of(recs, "snr")),
       bytes_array(column_of(recs, "phy")),
       bytes_array(column_of(recs, "frame_type")),
       bytes_array(column_of(recs, "payload")),
       option_array(column_of(recs, "mioty_qi_1")),
       option_array(column_of(recs, "mioty_qi_2")),
       option_array(column_of(recs, "mioty_qi_3")) >>

\* RecordBatch::try_new (line 156): as many columns as fields, all of one
\* length, and no null in a column whose field is not nullable
try_new(sch, cols) ==
    IF Len(cols) # Len(sch) THEN Err("schema")
    ELSE IF \E i \in 1..Len(cols) : array_len(cols[i]) # array_len(cols[1])
    THEN Err("schema")
    ELSE IF \E i \in 1..Len(cols) : ~sch[i].nullable /\ null_count(cols[i]) > 0
    THEN Err("schema")
    ELSE Ok([schema |-> sch, columns |-> cols, num_rows |-> array_len(cols[1])])

\* build_recordbatch (lines 141-181)
build_recordbatch(recs) == try_new(schema, columns(recs))

(***************************************************************************)
(* The inputs: the attribute lists of the start tags and the contents of   *)
(* the text events the reader may deliver.                                 *)
(***************************************************************************)
DevX == <<"X">>
DevLt == <<"&", "l", "t", ";">>
BadEntity == <<"&", "z", ";">>

SdlAttrLists ==
    { <<>>,
      <<Attr("deviceId", DevX)>>,
      <<Attr("deviceId", DevLt)>>,
      <<Attr("name", DevX)>>,
      <<AttrError, Attr("deviceId", DevX)>>,
      <<Attr("deviceId", BadEntity)>> }

GoodSd ==
    << Attr("ts", <<"1">>), Attr("rssi", <<"-", "1", "0">>), Attr("snr", <<"5">>),
       Attr("phy", <<"A">>), Attr("type", <<"u", "p">>) >>

SdAttrLists ==
    { <<>>,
      GoodSd,
      <<Attr("foo", <<"1">>)>>,
      <<Attr("ts", <<"a", "b", "c">>)>>,
      <<Attr("ts", <<"9","2","2","3","3","7","2","0","3","6","8","5","4","7","7","5","8","0","8">>)>>,
      <<Attr("ts", <<"1">>), Attr("rssi", <<"2","1","4","7","4","8","3","6","4","8">>), Attr("snr", <<"5">>)>>,
      <<Attr("snr", <<"-","2","1","4","7","4","8","3","6","4","9">>)>>,
      <<Attr("rssi", <<>>)>>,
      <<Attr("snr", <<"-">>)>>,
      <<Attr("phy", BadEntity)>> }

Texts ==
    { <<"a", "b">>,
      <<" ", "A", "B", "\n">>,
      <<" ", "\t">>,
      <<>>,
      <<"a", "b", "c">>,
      <<"4", "g">>,
      <<"a", BadUtf8>> }

\* the attribute lists of the self-closing elements
EmptyAttrLists == { <<Attr("deviceId", DevLt)>>, GoodSd }

ElementNames == {"sdl", "sd", "other"}

(***************************************************************************)
(* What the stream says, kept beside the program's state so that the       *)
(* claims can be stated: the identifier attributes of a start tag, and     *)
(* whether an event carries a numeric attribute or a text that is invalid. *)
(***************************************************************************)
OuterIds(attrs) ==
    { unescape_value(Yielded(attrs)[i].val).val :
        i \in { k \in 1..Len(Yielded(attrs)) :
                  /\ Yielded(attrs)[k].key = "deviceId"
                  /\ unescape_value(Yielded(attrs)[k].val).ok } }

BadNumeric(attrs) ==
    \E i \in 1..Len(Yielded(attrs)) :
        LET a == Yielded(attrs)[i]
            v == unescape_value(a.val)
        IN  /\ v.ok
            /\ \/ a.key = "ts" /\ ~parse_i64(v.val).ok
               \/ a.key \in {"rssi", "snr"} /\ ~parse_i32(v.val).ok

ValidHex(text) ==
    /\ Len(text) % 2 = 0
    /\ \A i \in 1..Len(text) : IsHexDigit(text[i])

BadHex(bytes) ==
    /\ from_utf8(bytes).ok
    /\ trim(bytes) # <<>>
    /\ ~ValidHex(trim(bytes))

(***************************************************************************)
(* State.                                                                  *)
(*   pc              "open", "loop" (in parse_sd_file), "returned" (back   *)
(*                   in main, line 196), "build" (build_recordbatch alone),*)
(*                   "done"                                                *)
(*   records, current_device, current_sd   the locals of lines 54-56       *)
(*   result          what parse_sd_file returned, None before it returns   *)
(*   outcome, batch, build_calls   main: how it ended, the batch of line   *)
(*                   203, the arguments build_recordbatch was called with  *)
(*   stack           the sdl and sd elements of the stream that are open,  *)
(*                   the outermost first                                   *)
(*   n_events        the number of events read                             *)
(*   sd_ends         the number of end tags of sd delivered                *)
(*   last_outer      the identifier attributes of the sdl start tag        *)
(*                   delivered last, None before the first                 *)
(*   last_id         the deviceId of the sdl start tag delivered last      *)
(*                   among those that carried one, empty before the first  *)
(*   faults          the kinds of invalid input delivered so far           *)
(*   script          None where the reader may deliver any event, else the *)
(*                   stream it delivers, event n_events + 1 being the next *)
(***************************************************************************)
VARIABLES pc, records, current_device, current_sd, result,
          outcome, batch, build_calls,
          n_events, stack, sd_ends, last_outer, last_id, faults, script

vars == <<pc, records, current_device, current_sd, result,
          outcome, batch, build_calls,
          n_events, stack, sd_ends, last_outer, last_id, faults, script>>
locals == <<records, current_device, current_sd>>
mainvars == <<outcome, batch, build_calls>>
ghosts == <<stack, sd_ends, last_outer, last_id, faults>>

\* line 59: one more event is read
Read ==
    /\ pc = "loop"
    /\ n_events < (IF script = None THEN MaxEvents ELSE Len(script[1]))
    /\ n_events' = n_events + 1
    /\ script' = script

\* lines 53-56, before File::open
Init ==
    /\ pc = "open"
    /\ records = <<>>
    /\ current_device = <<>>
    /\ current_sd = new_sd_record
    /\ result = None
    /\ outcome = "none"
    /\ batch = None
    /\ build_calls = <<>>
    /\ n_events = 0
    /\ stack = <<>>
    /\ sd_ends = 0
    /\ last_outer = None
    /\ last_id = <<>>
    /\ faults = {}
    /\ script = None

\* a return of parse_sd_file: the result goes to main, and the locals are
\* dropped (records is moved into the result of line 138)
Return(res) ==
    /\ pc' = "returned"
    /\ result' = Some(res)
    /\ records' = <<>>
    /\ current_device' = <<>>
    /\ current_sd' = new_sd_record
\* the handler changed the local `name` to `value` at most, and the loop goes on
Continue(name, value) ==
    /\ pc' = "loop"
    /\ result' = result
    /\ records' = IF name = "records" THEN value ELSE records
    /\ current_device' = IF name = "current_device" THEN value ELSE current_device
    /\ current_sd' = IF name = "current_sd" THEN value ELSE current_sd

\* the `?` as a `break`: the records read so far are the result
propagate_partial(recs, kind) == Ok(recs)
\* the `?` of lines 48, 66, 76, 83, 88, 93, 106, 111
propagate(recs, kind) == Err(kind)
\* lines 125-130 as a `break`
on_reader_error_break(recs) == Ok(recs)
\* lines 125-130
on_reader_error(recs) == Err("xml")
\* line 138
on_eof(recs) == Ok(recs)

\* lines 47-48
OpenFile ==
    /\ pc = "open"
    /\ \E opened \in BOOLEAN :
          IF opened THEN Continue("-", <<>>) ELSE Return(propagate(records, "io"))
    /\ UNCHANGED <<mainvars, n_events, ghosts, script>>

(***************************************************************************)
(* The elements of the stream that are open. The reader checks that an end *)
(* tag names the element opened last, so an end tag of sdl or sd closes    *)
(* the top of the stack. An sdl entry is `latest` while no sdl start tag   *)
(* with an identifier has been delivered since its own; an sd entry has    *)
(* `text` once a text that is not all whitespace has been delivered since  *)
(* its start tag.                                                          *)
(***************************************************************************)
Opened(stk, name, ids) ==
    Append([i \in 1..Len(stk) |->
               [stk[i] EXCEPT !.latest = IF name = "sdl" /\ ids # {} THEN FALSE ELSE @]],
           [name |-> name, ids |-> ids, latest |-> name = "sdl", text |-> FALSE])

HasContent(bytes) == from_utf8(bytes).ok /\ trim(bytes) # <<>>

Texted(stk, bytes) ==
    [i \in 1..Len(stk) |->
        [stk[i] EXCEPT !.text = IF stk[i].name = "sd" /\ HasContent(bytes) THEN TRUE ELSE @]]

Outers(stk) == { i \in 1..Len(stk) : stk[i].name = "sdl" }
Nearest(stk) == CHOOSE i \in Outers(stk) : \A j \in Outers(stk) : j <= i

\* line 59, Event::Start of sdl, lines 61-70
ReadStartSdl(attrs) ==
    /\ Read
    /\ LET r == on_start_sdl(current_device, Yielded(attrs)) IN
          IF r.ok THEN Continue("current_device", r.v)
          ELSE Return(propagate(records, r.err))
    /\ stack' = Opened(stack, "sdl", OuterIds(attrs))
    /\ last_outer' = Some(OuterIds(attrs))
    /\ last_id' = IF OuterIds(attrs) = {} THEN last_id
                  ELSE CHOOSE id \in OuterIds(attrs) : TRUE
    /\ UNCHANGED <<mainvars, sd_ends, faults>>

\* line 59, Event::Start of sd, lines 71-100
ReadStartSd(attrs) ==
    /\ Read
    /\ LET r == on_start_sd(current_sd, Yielded(attrs)) IN
          IF r.ok THEN Continue("current_sd", r.v)
          ELSE Return(propagate(records, r.err))
    /\ stack' = Opened(stack, "sd", {})
    /\ faults' = faults \cup (IF BadNumeric(attrs) THEN {"num"} ELSE {})
    /\ UNCHANGED <<mainvars, sd_ends, last_outer, last_id>>

\* line 59, Event::Start of any other element, line 101
ReadStartOther ==
    /\ Read
    /\ Continue("-", <<>>)
    /\ UNCHANGED <<mainvars, ghosts>>

\* line 59, Event::Text, lines 104-113
ReadText(bytes) ==
    /\ Read
    /\ LET r == on_text(current_sd, bytes) IN
          IF r.ok THEN Continue("current_sd", r.v)
          ELSE Return(propagate(records, r.err))
    /\ stack' = Texted(stack, bytes)
    /\ faults' = faults \cup (IF BadHex(bytes) THEN {"hex"} ELSE {})
    /\ UNCHANGED <<mainvars, sd_ends, last_outer, last_id>>

\* ReadEnd without line 119
ReadEnd_keep(name) ==
    /\ Read
    /\ name \in {"sdl", "sd"} => stack # <<>> /\ Last(stack).name = name
    /\ pc' = "loop"
    /\ result' = result
    /\ IF is_record_end(name)
       THEN records' = push(records, finalize(current_sd, current_device))
       ELSE records' = records
    /\ current_sd' = current_sd
    /\ stack' = IF name \in {"sdl", "sd"} THEN Front(stack) ELSE stack
    /\ sd_ends' = IF name = "sd" THEN sd_ends + 1 ELSE sd_ends
    /\ UNCHANGED <<current_device, mainvars, last_outer, last_id, faults>>
\* ReadEnd clearing current_device at the end tag of sdl
ReadEnd_scoped(name) ==
    /\ Read
    /\ name \in {"sdl", "sd"} => stack # <<>> /\ Last(stack).name = name
    /\ pc' = "loop"
    /\ result' = result
    /\ IF is_record_end(name)
       THEN /\ records' = push(records, finalize(current_sd, current_device))
            /\ current_sd' = new_sd_record
       ELSE UNCHANGED <<records, current_sd>>
    /\ current_device' = IF name = "sdl" THEN <<>> ELSE current_device
    /\ stack' = IF name \in {"sdl", "sd"} THEN Front(stack) ELSE stack
    /\ sd_ends' = IF name = "sd" THEN sd_ends + 1 ELSE sd_ends
    /\ UNCHANGED <<mainvars, last_outer, last_id, faults>>
\* line 59, Event::End, lines 115-121
ReadEnd(name) ==
    /\ Read
    /\ name \in {"sdl", "sd"} => stack # <<>> /\ Last(stack).name = name
    /\ pc' = "loop"
    /\ result' = result
    /\ IF is_record_end(name)
       THEN /\ records' = push(records, finalize(current_sd, current_device))
            /\ current_sd' = new_sd_record
       ELSE UNCHANGED <<records, current_sd>>
    /\ stack' = IF name \in {"sdl", "sd"} THEN Front(stack) ELSE stack
    /\ sd_ends' = IF name = "sd" THEN sd_ends + 1 ELSE sd_ends
    /\ UNCHANGED <<current_device, mainvars, last_outer, last_id, faults>>

\* ReadEmpty taking a self-closing sd as its start tag and its end tag, and
\* a self-closing sdl as its start tag
ReadEmpty_expanded(name, attrs) ==
    /\ Read
    /\ IF name = "sd"
       THEN LET r == on_start_sd(current_sd, Yielded(attrs)) IN
            IF r.ok
            THEN /\ pc' = "loop"
                 /\ result' = result
                 /\ records' = push(records, finalize(r.v, current_device))
                 /\ current_sd' = new_sd_record
                 /\ current_device' = current_device
            ELSE Return(propagate(records, r.err))
       ELSE IF name = "sdl"
       THEN LET r == on_start_sdl(current_device, Yielded(attrs)) IN
            IF r.ok THEN Continue("current_device", r.v)
            ELSE Return(propagate(records, r.err))
       ELSE Continue("-", <<>>)
    /\ UNCHANGED <<mainvars, ghosts>>
\* line 59, Event::Empty (a self-closing element), line 132
ReadEmpty(name, attrs) ==
    /\ Read
    /\ Continue("-", <<>>)
    /\ UNCHANGED <<mainvars, ghosts>>

\* line 59, a comment, CDATA, declaration, processing instruction or doctype,
\* line 132
ReadOther ==
    /\ Read
    /\ Continue("-", <<>>)
    /\ UNCHANGED <<mainvars, ghosts>>

\* line 59, Event::Eof, lines 123 and 138
ReadEof ==
    /\ Read
    /\ Return(on_eof(records))
    /\ UNCHANGED <<mainvars, ghosts>>

\* line 59, Err, lines 125-130
ReadErr ==
    /\ Read
    /\ Return(on_reader_error(records))
    /\ faults' = faults \cup {"xml"}
    /\ UNCHANGED <<mainvars, stack, sd_ends, last_outer, last_id>>

(***************************************************************************)
(* main, lines 196-206.                                                    *)
(***************************************************************************)
\* line 198 without the test
no_records_never(recs) == FALSE
\* line 198
no_records(recs) == recs = <<>>

\* the `?` of line 196
MainErr ==
    /\ pc = "returned"
    /\ ~result[1].ok
    /\ pc' = "done"
    /\ outcome' = "Err"
    /\ UNCHANGED <<locals, result, batch, build_calls, n_events, ghosts, script>>

\* lines 198-201
MainNoRecords ==
    /\ pc = "returned"
    /\ result[1].ok
    /\ no_records(result[1].val)
    /\ pc' = "done"
    /\ outcome' = "NoRecords"
    /\ UNCHANGED <<locals, result, batch, build_calls, n_events, ghosts, script>>

\* lines 203-206
MainBuild ==
    /\ pc = "returned"
    /\ result[1].ok
    /\ ~no_records(result[1].val)
    /\ pc' = "done"
    /\ build_calls' = Append(build_calls, result[1].val)
    /\ LET b == build_recordbatch(result[1].val) IN
          IF b.ok THEN batch' = Some(b.val) /\ outcome' = "Parsed"
          ELSE batch' = batch /\ outcome' = "Err"
    /\ UNCHANGED <<locals, result, n_events, ghosts, script>>

Next ==
    \/ OpenFile
    \/ \E attrs \in SdlAttrLists : ReadStartSdl(attrs)
    \/ \E attrs \in SdAttrLists : ReadStartSd(attrs)
    \/ ReadStartOther
    \/ \E bytes \in Texts : ReadText(bytes)
    \/ \E name \in ElementNames : ReadEnd(name)
    \/ \E name \in ElementNames : \E attrs \in EmptyAttrLists :
          ReadEmpty(name, attrs)
    \/ ReadOther
    \/ ReadEof
    \/ ReadErr
    \/ MainErr
    \/ MainNoRecords
    \/ MainBuild

Spec == Init /\ [][Next]_vars

(***************************************************************************)
(* build_recordbatch alone, on every record sequence of at most MaxRows    *)
(* records, the optional fields present or absent.                         *)
(***************************************************************************)
BatchRecords ==
    { [new_sd_record EXCEPT
          !.device_id = d, !.ts = n, !.rssi = 0 - 10 * n, !.snr = 5 * n,
          !.phy = IF n = 0 THEN <<>> ELSE <<"A">>,
          !.frame_type = IF n = 0 THEN <<>> ELSE <<"u", "p">>,
          !.payload = p, !.mioty_qi_1 = q, !.mioty_qi_2 = None,
          !.mioty_qi_3 = IF q = None THEN Some(7) ELSE None] :
        d \in {<<>>, <<"X">>}, n \in {0, 1}, p \in {<<>>, <<171>>},
        q \in {None, Some(0)} }

RECURSIVE SeqsUpTo(_, _)
SeqsUpTo(S, n) ==
    IF n = 0 THEN {<<>>}
    ELSE SeqsUpTo(S, n - 1) \cup
         { Append(q, x) : q \in { t \in SeqsUpTo(S, n - 1) : Len(t) = n - 1 }, x \in S }

InitBatch ==
    /\ pc = "build"
    /\ records \in SeqsUpTo(BatchRecords, MaxRows)
    /\ current_device = <<>>
    /\ current_sd = new_sd_record
    /\ result = None
    /\ outcome = "none"
    /\ batch = None
    /\ build_calls = <<>>
    /\ n_events = 0
    /\ stack = <<>>
    /\ sd_ends = 0
    /\ last_outer = None
    /\ last_id = <<>>
    /\ faults = {}
    /\ script = None

\* a call of build_recordbatch, line 203
BuildBatch ==
    /\ pc = "build"
    /\ pc' = "done"
    /\ build_calls' = Append(build_calls, records)
    /\ LET b == build_recordbatch(records) IN
          IF b.ok THEN batch' = Some(b.val) /\ outcome' = "Parsed"
          ELSE batch' = batch /\ outcome' = "Err"
    /\ UNCHANGED <<locals, result, n_events, ghosts, script>>

NextBatch == BuildBatch

SpecBatch == InitBatch /\ [][NextBatch]_vars

(***************************************************************************)
(* Reading a batch: the cell of an array, None for a null slot.            *)
(***************************************************************************)
Cell(arr, j) ==
    IF ~arr.validity[j] THEN None
    ELSE IF arr.kind = "bytes"
    THEN Some(SubSeq(arr.values, arr.offsets[j] + 1, arr.offsets[j + 1]))
    ELSE Some(arr.values[j])

\* the fields of a record in the order of the schema, an Option each
FieldsOf(r) ==
    << Some(r.device_id), Some(r.ts), Some(r.rssi), Some(r.snr), Some(r.phy),
       Some(r.frame_type), Some(r.payload), r.mioty_qi_1, r.mioty_qi_2, r.mioty_qi_3 >>

RowOf(b, j) == [i \in 1..Len(b.columns) |-> Cell(b.columns[i], j)]

Returned == result # None
ReturnedOk == result # None /\ result[1].ok
ReturnedErr == result # None /\ ~result[1].ok

\* the parse failed and nothing of it reached a batch
Aborted ==
    /\ pc \in {"returned", "done"}
    /\ ReturnedErr
    /\ result[1].val = <<>>
    /\ outcome \in {"none", "Err"}
    /\ batch = None
    /\ build_calls = <<>>

\* this step reads the end tag of an sd element
SdEndStep == sd_ends' = sd_ends + 1

(***************************************************************************)
(* C1: when parse_sd_file returns Ok, the sequence it returns is as long   *)
(* as the number of sd end tags the stream delivered.                      *)
(***************************************************************************)
C1_RowCount == ReturnedOk => Len(result[1].val) = sd_ends

C1_Witness ==
    /\ ReturnedOk
    /\ Len(result[1].val) = 2
    /\ n_events > 5

(***************************************************************************)
(* C2: a record pushed at an sd end tag has the device_id that the sdl     *)
(* start tag delivered last carried as its deviceId attribute, where that  *)
(* tag carried one.                                                        *)
(***************************************************************************)
C2_LastOuterId ==
    [][(SdEndStep /\ last_outer # None /\ last_outer[1] # {})
          => /\ Len(records') = Len(records) + 1
             /\ last_outer[1] = {Last(records').device_id}]_vars

C2_Witness ==
    /\ Len(records) = 2
    /\ records[1].device_id = <<"X">>
    /\ records[2].device_id = <<"<">>
    /\ last_outer = Some({<<"<">>})

(***************************************************************************)
(* C3, as claimed: a record pushed at an sd end tag has the identifier of  *)
(* the nearest sdl element still open around it, also where sdl elements   *)
(* nest or an sdl element has been closed before the record.               *)
(***************************************************************************)
Enclosing == Front(stack)
HasEnclosingId == Outers(Enclosing) # {} /\ Enclosing[Nearest(Enclosing)].ids # {}

C3_NearestEnclosing ==
    [][(SdEndStep /\ HasEnclosingId)
          => Enclosing[Nearest(Enclosing)].ids = {Last(records').device_id}]_vars

(***************************************************************************)
(* C3, amended: a record pushed at an sd end tag has the identifier of the *)
(* nearest sdl element still open around it where no sdl start tag with an *)
(* identifier has been delivered since that element's own start tag.       *)
(***************************************************************************)
C3_NearestEnclosingIfLatest ==
    [][(SdEndStep /\ HasEnclosingId /\ Enclosing[Nearest(Enclosing)].latest)
          => Enclosing[Nearest(Enclosing)].ids = {Last(records').device_id}]_vars

\* sdl X, sdl <, sd, end of sd: the record closed inside both
C3_Witness ==
    /\ n_events = 4
    /\ Len(stack) = 2
    /\ stack[1].ids = {<<"X">>}
    /\ stack[2].ids = {<<"<">>}
    /\ stack[2].latest
    /\ Len(records) = 1
    /\ records[1].device_id = <<"<">>

(***************************************************************************)
(* C4: once a start tag of sd with a ts, rssi or snr attribute that does   *)
(* not parse has been read, parse_sd_file has returned an error and no     *)
(* records, and no batch is built.                                         *)
(***************************************************************************)
C4_NumericFailureAborts == "num" \in faults => Aborted

C4_Witness ==
    /\ "num" \in faults
    /\ sd_ends = 2
    /\ outcome = "Err"

(***************************************************************************)
(* C5: once the reader has reported an error, parse_sd_file has returned   *)
(* an error and no records, whatever was pushed before.                    *)
(***************************************************************************)
C5_ReaderErrorAborts == "xml" \in faults => Aborted

C5_Witness ==
    /\ "xml" \in faults
    /\ sd_ends = 2
    /\ outcome = "Err"

(***************************************************************************)
(* C6: once a text that is not empty after trimming and is not valid       *)
(* hexadecimal has been read, parse_sd_file has returned an error and no   *)
(* records.                                                                *)
(***************************************************************************)
C6_BadHexAborts == "hex" \in faults => Aborted

C6_Witness ==
    /\ "hex" \in faults
    /\ sd_ends = 1
    /\ stack # <<>>
    /\ Last(stack).name = "sd"
    /\ outcome = "Err"

(***************************************************************************)
(* C7: an sd element with no text (other than whitespace) between its      *)
(* start tag and its end tag is pushed with an empty payload.              *)
(***************************************************************************)
C7_NoTextEmptyPayload ==
    [][(SdEndStep /\ ~Last(stack).text)
          => /\ Len(records') = Len(records) + 1
             /\ Last(records').payload = <<>>]_vars

(***************************************************************************)
(* C8: main ends with "no records" and without a batch when the parse      *)
(* returned no records, and build_recordbatch is only ever called with a   *)
(* sequence that is not empty.                                             *)
(***************************************************************************)
C8_NoRecordsNoBuild ==
    /\ (pc = "done" /\ ReturnedOk /\ result[1].val = <<>>)
          => (outcome = "NoRecords" /\ batch = None /\ build_calls = <<>>)
    /\ \A i \in 1..Len(build_calls) : build_calls[i] # <<>>
    /\ outcome = "NoRecords" => (ReturnedOk /\ result[1].val = <<>>)

C8_Witness ==
    /\ pc = "done"
    /\ outcome = "NoRecords"
    /\ last_outer # None
    /\ stack = <<>>
    /\ n_events > 2

(***************************************************************************)
(* C9: the batch build_recordbatch makes of a record sequence has one row  *)
(* per record, and the cell of column i and row j is field i of record j,  *)
(* an absent optional field being a null cell and a present one not.       *)
(***************************************************************************)
C9_BatchIsTranspose ==
    pc = "done" =>
        /\ batch # None
        /\ batch[1].num_rows = Len(records)
        /\ Len(batch[1].columns) = Len(schema)
        /\ \A j \in 1..Len(records) : RowOf(batch[1], j) = FieldsOf(records[j])

C9_Witness ==
    /\ pc = "done"
    /\ batch # None
    /\ Len(records) = 2
    /\ records[1].mioty_qi_1 = Some(0)
    /\ records[2].mioty_qi_1 = None
    /\ records[1].payload # <<>>
    /\ records[2].device_id # records[1].device_id

(***************************************************************************)
(* C10: the records are in the order of the sd end tags: the k-th end tag  *)
(* appends the record it finalizes as the k-th record, no other event      *)
(* changes the records already there, the sequence returned is that        *)
(* sequence and the k-th row of the batch is its k-th record.              *)
(***************************************************************************)
C10_Order ==
    [][/\ SdEndStep =>
            /\ Len(records) = sd_ends
            /\ records' = Append(records, [current_sd EXCEPT !.device_id = current_device])
       /\ (pc' = "loop" /\ ~SdEndStep) => records' = records
       /\ (result = None /\ result' # None /\ result'[1].ok) => result'[1].val = records
       /\ (batch = None /\ batch' # None) =>
            /\ batch'[1].num_rows = Len(result[1].val)
            /\ \A k \in 1..Len(result[1].val) :
                  RowOf(batch'[1], k) = FieldsOf(result[1].val[k])]_vars

C10_Witness ==
    /\ pc = "done"
    /\ batch # None
    /\ batch[1].num_rows = 2
    /\ result[1].val[1].payload # result[1].val[2].payload
    /\ RowOf(batch[1], 1) = FieldsOf(result[1].val[1])

(***************************************************************************)
(* The parse on a given stream. Here the reader delivers the events of one *)
(* stream, script[1], in order, so that what the loop does with an event   *)
(* can be set against the event itself. An end tag that does not close the *)
(* element open last is delivered by the reader as an error (line 125).    *)
(***************************************************************************)
MaxScript == 2

EvStart(name, attrs) == [type |-> "start", name |-> name, attrs |-> attrs, bytes |-> <<>>]
EvEmpty(name, attrs) == [type |-> "empty", name |-> name, attrs |-> attrs, bytes |-> <<>>]
EvText(bytes) == [type |-> "text", name |-> "", attrs |-> <<>>, bytes |-> bytes]
EvEnd(name) == [type |-> "end", name |-> name, attrs |-> <<>>, bytes |-> <<>>]
EvOther == [type |-> "other", name |-> "", attrs |-> <<>>, bytes |-> <<>>]
EvEof == [type |-> "eof", name |-> "", attrs |-> <<>>, bytes |-> <<>>]
EvErr == [type |-> "err", name |-> "", attrs |-> <<>>, bytes |-> <<>>]

\* the attribute keys the sd arm recognizes, lines 80-96
SdKeys == {"ts", "rssi", "snr", "phy", "type"}

GoodSd2 ==
    <<Attr("ts", <<"2">>), Attr("rssi", <<"-", "2", "0">>), Attr("snr", <<"6">>),
      Attr("phy", <<"B">>), Attr("type", <<"d", "o", "w", "n">>)>>

Without(attrs, key) == SelectSeq(attrs, LAMBDA a : a.key # key)
Reverse(seq) == [i \in 1..Len(seq) |-> seq[Len(seq) + 1 - i]]

\* sd start tags that lack one recognized attribute or all of them
PartialSd == { Without(GoodSd2, k) : k \in SdKeys } \cup { <<>> }

ScriptSd ==
    PartialSd \cup
    { GoodSd,
      GoodSd2,
      Reverse(GoodSd),
      <<Attr("ts", <<"1">>), Attr("ts", <<"2">>)>>,
      <<Attr("foo", <<"1">>), Attr("phy", <<"A">>), Attr("bar", DevLt)>>,
      <<Attr("foo", BadEntity)>>,
      <<Attr("ts", <<"a", "b", "c">>)>> }

ScriptSdl == { <<Attr("deviceId", DevX)>>, <<Attr("deviceId", DevLt)>>, <<>> }

ScriptTexts == { <<"a", "b">>, <<"4", "F">>, <<" ", "\t">>, <<"4", "g">> }

ScriptEvents ==
    { EvStart("sdl", a) : a \in ScriptSdl } \cup
    { EvStart("sd", a) : a \in ScriptSd } \cup
    { EvText(t) : t \in ScriptTexts } \cup
    { EvEnd("sd"), EvEnd("sdl"), EvEnd("other"), EvStart("other", <<>>),
      EvEmpty("sd", GoodSd), EvEmpty("sdl", <<Attr("deviceId", DevLt)>>),
      EvOther, EvErr }

\* every stream of up to MaxScript events, then the end of the input
ShortScripts == { b \o <<EvEof>> : b \in SeqsUpTo(ScriptEvents, MaxScript) }

\* what a stream holds between the start tag and the end tag of an sd
InsideSd ==
    { <<>>,
      <<EvText(<<"a", "b">>)>>,
      <<EvText(<<"a", "b">>), EvText(<<"4", "F">>)>>,
      <<EvText(<<"4", "F">>), EvText(<<" ", "\t">>)>>,
      <<EvText(<<"a", "b">>), EvEmpty("sd", GoodSd)>>,
      <<EvText(<<"4", "g">>)>> }

\* an sdl element holding two sd elements
TwoRecordScripts ==
    { <<EvStart("sdl", s), EvStart("sd", a1)>> \o m1
        \o <<EvEnd("sd"), EvStart("sd", a2)>> \o m2
        \o <<EvEnd("sd"), EvEnd("sdl"), EvEof>> :
        s \in {<<Attr("deviceId", DevX)>>, <<>>},
        a1 \in {GoodSd, GoodSd2},
        m1 \in InsideSd,
        a2 \in PartialSd \cup {GoodSd2},
        m2 \in {<<>>, <<EvText(<<"a", "b">>)>>} }

Scripts == ShortScripts \cup TwoRecordScripts

InitScript ==
    /\ pc = "open"
    /\ records = <<>>
    /\ current_device = <<>>
    /\ current_sd = new_sd_record
    /\ result = None
    /\ outcome = "none"
    /\ batch = None
    /\ build_calls = <<>>
    /\ n_events = 0
    /\ stack = <<>>
    /\ sd_ends = 0
    /\ last_outer = None
    /\ last_id = <<>>
    /\ faults = {}
    /\ script \in { Some(s) : s \in Scripts }

\* the reader has an event of the stream to deliver
HasNext == script # None /\ pc = "loop" /\ n_events < Len(script[1])
NextEvent == script[1][n_events + 1]
\* an end tag of an element that is not the one open last
Mismatched(name) ==
    /\ name \in {"sdl", "sd"}
    /\ IF stack = <<>> THEN TRUE ELSE Last(stack).name # name

DeliverStartSdl ==
    /\ HasNext /\ NextEvent.type = "start" /\ NextEvent.name = "sdl"
    /\ ReadStartSdl(NextEvent.attrs)
DeliverStartSd ==
    /\ HasNext /\ NextEvent.type = "start" /\ NextEvent.name = "sd"
    /\ ReadStartSd(NextEvent.attrs)
DeliverStartOther ==
    /\ HasNext /\ NextEvent.type = "start" /\ NextEvent.name \notin {"sdl", "sd"}
    /\ ReadStartOther
DeliverText ==
    /\ HasNext /\ NextEvent.type = "text"
    /\ ReadText(NextEvent.bytes)
DeliverEnd ==
    /\ HasNext /\ NextEvent.type = "end" /\ ~Mismatched(NextEvent.name)
    /\ ReadEnd(NextEvent.name)
DeliverEmpty ==
    /\ HasNext /\ NextEvent.type = "empty"
    /\ ReadEmpty(NextEvent.name, NextEvent.attrs)
DeliverOther ==
    /\ HasNext /\ NextEvent.type = "other"
    /\ ReadOther
DeliverEof ==
    /\ HasNext /\ NextEvent.type = "eof"
    /\ ReadEof
DeliverErr ==
    /\ HasNext
    /\ \/ NextEvent.type = "err"
       \/ NextEvent.type = "end" /\ Mismatched(NextEvent.name)
    /\ ReadErr

NextScript ==
    \/ OpenFile
    \/ DeliverStartSdl
    \/ DeliverStartSd
    \/ DeliverStartOther
    \/ DeliverText
    \/ DeliverEnd
    \/ DeliverEmpty
    \/ DeliverOther
    \/ DeliverEof
    \/ DeliverErr
    \/ MainErr
    \/ MainNoRecords
    \/ MainBuild

SpecScript == InitScript /\ [][NextScript]_vars

\* a step that takes the next event of the stream, whatever the event
TakeEvent == HasNext /\ n_events' = n_events + 1

\* parse_sd_file and main run on, one step after the other: weak fairness of
\* opening the file, of taking the next event and of main's part. A step of
\* the loop is possible exactly where HasNext holds, every kind of event
\* having its action, so the fairness of TakeEvent is written with HasNext
\* as its enabling condition.
SpecScriptFair ==
    /\ SpecScript
    /\ WF_vars(OpenFile)
    /\ []<>~HasNext \/ []<><<TakeEvent>>_vars
    /\ WF_vars(MainErr \/ MainNoRecords \/ MainBuild)

\* this step hands the loop the next event of the stream
Delivered == script # None /\ pc = "loop" /\ n_events' = n_events + 1

(***************************************************************************)
(* C11: on the stream <sdl deviceId="X">, <sd ts="1" rssi="-10" snr="5"    *)
(* phy="A" type="up">, the text ab, </sd>, <sd ts="2" rssi="-20" snr="6"   *)
(* phy="B" type="down">, </sd>, </sdl>, end of input, parse_sd_file        *)
(* returns exactly the two records (X, 1, -10, 5, A, up, [0xAB]) and       *)
(* (X, 2, -20, 6, B, down, []) with the optional fields absent, and the    *)
(* batch main builds of them has exactly these two rows, the last three    *)
(* cells null.                                                             *)
(***************************************************************************)
Scenario ==
    << EvStart("sdl", <<Attr("deviceId", DevX)>>),
       EvStart("sd", GoodSd), EvText(<<"a", "b">>), EvEnd("sd"),
       EvStart("sd", GoodSd2), EvEnd("sd"),
       EvEnd("sdl"), EvEof >>

ScenarioRows ==
    << << Some(<<"X">>), Some(1), Some(-10), Some(5), Some(<<"A">>),
          Some(<<"u", "p">>), Some(<<171>>), None, None, None >>,
       << Some(<<"X">>), Some(2), Some(-20), Some(6), Some(<<"B">>),
          Some(<<"d", "o", "w", "n">>), Some(<<>>), None, None, None >> >>

C11_EndToEnd ==
    (script = Some(Scenario) /\ n_events = Len(Scenario)) =>
        /\ ReturnedOk
        /\ [j \in 1..Len(result[1].val) |-> FieldsOf(result[1].val[j])] = ScenarioRows
        /\ pc = "done" =>
              /\ outcome = "Parsed"
              /\ batch # None
              /\ batch[1].num_rows = 2
              /\ [j \in 1..2 |-> RowOf(batch[1], j)] = ScenarioRows

C11_Witness ==
    /\ script = Some(Scenario)
    /\ n_events = Len(Scenario)
    /\ pc = "done"
    /\ batch # None

(***************************************************************************)
(* C12, as claimed: whenever the loop is handed the start tag of an sd     *)
(* element, current_sd is the default record, whatever events came before  *)
(* (text outside an sd element, an sd start tag with no sd end tag since). *)
(***************************************************************************)
C12_DefaultAtOpen ==
    [][(Delivered /\ NextEvent.type = "start" /\ NextEvent.name = "sd")
          => current_sd = new_sd_record]_vars

(***************************************************************************)
(* C13: a step that reads an sdl start tag without a deviceId leaves       *)
(* current_device as it was, and a record pushed while the sdl start tag   *)
(* read last was such a tag has the deviceId of the last sdl start tag     *)
(* that carried one, the empty string where none did.                      *)
(***************************************************************************)
SdlStartStep == Len(stack') = Len(stack) + 1 /\ Last(stack').name = "sdl"

C13_NoIdentifierKeeps ==
    [][/\ (SdlStartStep /\ Last(stack').ids = {} /\ pc' = "loop")
            => current_device' = current_device
       /\ (SdEndStep /\ last_outer = Some({}))
            => /\ Len(records') = Len(records) + 1
               /\ Last(records').device_id = last_id]_vars

C13_Witness ==
    /\ last_outer = Some({})
    /\ last_id = <<"X">>
    /\ Len(records) = 2
    /\ records[1].device_id = <<>>
    /\ records[2].device_id = <<"X">>

(***************************************************************************)
(* C14: while the loop runs, the only step that changes current_device is  *)
(* one that reads an sdl start tag carrying a deviceId; the steps reading  *)
(* an sd start tag, a text, an sd end tag, an sdl end tag or anything of   *)
(* another element leave it as it is, so that an sdl end tag does not put  *)
(* an earlier value back.                                                  *)
(***************************************************************************)
C14_OnlyIdentifiedOpenChanges ==
    [][/\ (pc = "loop" /\ pc' = "loop" /\ current_device' # current_device)
            => SdlStartStep /\ Last(stack').ids # {}
       /\ (pc = "loop" /\ Len(stack') < Len(stack))
            => current_device' = current_device]_vars

\* an sdl element with a deviceId has been closed after one in it was opened
\* with another, and the loop still holds the later one
C14_Witness ==
    /\ pc = "loop"
    /\ stack = <<>>
    /\ last_outer = Some({<<"<">>})
    /\ current_device = <<"<">>
    /\ Len(records) = 1
    /\ n_events = 6

(***************************************************************************)
(* C15: a step that reads a text with something other than whitespace in   *)
(* it, and goes on, leaves in current_sd.payload the bytes that text alone *)
(* decodes to; a step that reads a text of whitespace only leaves the      *)
(* payload as it was; and the record pushed at an sd end tag has the bytes *)
(* of the last such text read since the sd end tag before, not the bytes   *)
(* of several texts one after the other.                                   *)
(***************************************************************************)
\* the texts with content among the events before event i, none of them
\* followed by an sd end tag before event i
OpenTexts(i) ==
    { j \in 1..(i - 1) :
        /\ script[1][j].type = "text"
        /\ HasContent(script[1][j].bytes)
        /\ \A k \in (j + 1)..(i - 1) :
              ~(script[1][k].type = "end" /\ script[1][k].name = "sd") }

C15_TextReplacesPayload ==
    [][/\ (Delivered /\ NextEvent.type = "text" /\ pc' = "loop")
            => /\ HasContent(NextEvent.bytes)
                    => current_sd'.payload = from_hex(trim(NextEvent.bytes)).val
               /\ ~HasContent(NextEvent.bytes)
                    => current_sd'.payload = current_sd.payload
       /\ (Delivered /\ SdEndStep /\ OpenTexts(n_events + 1) # {})
            => LET j == CHOOSE x \in OpenTexts(n_events + 1) :
                            \A y \in OpenTexts(n_events + 1) : y <= x
               IN  Last(records').payload = from_hex(trim(script[1][j].bytes)).val]_vars

\* the text ab, then the text 4F, then the end tag: the record has 0x4F
C15_Witness ==
    /\ script # None
    /\ Len(script[1]) > 5
    /\ script[1][3] = EvText(<<"a", "b">>)
    /\ script[1][4] = EvText(<<"4", "F">>)
    /\ n_events = 5
    /\ Len(records) = 1
    /\ records[1].payload = <<79>>

(***************************************************************************)
(* C16, as claimed: after a step that reads an sd start tag and goes on,   *)
(* each of ts, rssi, snr, phy and frame_type is the value of the last      *)
(* attribute of the tag with that key, or what it was before where the tag *)
(* has no such attribute, and nothing else of current_sd has changed: the  *)
(* record is a function of the last value of each recognized key, whatever *)
(* the order of the attributes and whatever other keys the tag has.        *)
(***************************************************************************)
FieldOf(sd, key) ==
    CASE key = "ts" -> sd.ts
      [] key = "rssi" -> sd.rssi
      [] key = "snr" -> sd.snr
      [] key = "phy" -> sd.phy
      [] key = "type" -> sd.frame_type

\* what an attribute value of the tag is as a value of the field
ValueOf(key, val) ==
    CASE key = "ts" -> parse_i64(unescape_value(val).val).val
      [] key \in {"rssi", "snr"} -> parse_i32(unescape_value(val).val).val
      [] OTHER -> unescape_value(val).val

Occurrences(tag, key) == { i \in 1..Len(tag) : tag[i].ok /\ tag[i].key = key }

C16_LastOccurrenceWins ==
    [][(Delivered /\ NextEvent.type = "start" /\ NextEvent.name = "sd" /\ pc' = "loop")
          => LET tag == NextEvent.attrs IN
             /\ \A key \in SdKeys :
                   IF Occurrences(tag, key) = {}
                   THEN FieldOf(current_sd', key) = FieldOf(current_sd, key)
                   ELSE LET last == CHOOSE i \in Occurrences(tag, key) :
                                        \A j \in Occurrences(tag, key) : j <= i
                        IN  FieldOf(current_sd', key) = ValueOf(key, tag[last].val)
             /\ current_sd'.payload = current_sd.payload
             /\ current_sd'.device_id = current_sd.device_id]_vars

(***************************************************************************)
(* C17: in every state of the parse, mioty_qi_1, mioty_qi_2 and mioty_qi_3 *)
(* are None in current_sd, in every record of records and in every record  *)
(* parse_sd_file has returned, and the last three columns of the batch     *)
(* main builds of them are null in every row.                              *)
(***************************************************************************)
NoMetrics(r) == r.mioty_qi_1 = None /\ r.mioty_qi_2 = None /\ r.mioty_qi_3 = None

C17_MetricsAbsent ==
    /\ NoMetrics(current_sd)
    /\ \A j \in 1..Len(records) : NoMetrics(records[j])
    /\ ReturnedOk => \A j \in 1..Len(result[1].val) : NoMetrics(result[1].val[j])
    /\ batch # None =>
          \A j \in 1..batch[1].num_rows : \A i \in 8..10 :
              Cell(batch[1].columns[i], j) = None

C17_Witness ==
    /\ pc = "done"
    /\ batch # None
    /\ batch[1].num_rows = 2
    /\ null_count(batch[1].columns[8]) = 2

(***************************************************************************)
(* C18: on every stream (they are all finite and end with the end of the   *)
(* input) parse_sd_file returns; every step of the loop takes exactly one  *)
(* event of the stream, the next one; the step that takes the end of input *)
(* returns Ok with the records; a step that takes an event in error (a     *)
(* reader error, a mismatched end tag, a text that is not hexadecimal, an  *)
(* attribute value that does not unescape or a number that does not parse) *)
(* returns Err and no records; every other step goes on; and once it has   *)
(* returned, no event is taken and the result stays what it is.            *)
(***************************************************************************)
ErrorEvent(e) ==
    \/ e.type = "err"
    \/ e.type = "end" /\ Mismatched(e.name)
    \/ e.type = "text" /\ (~from_utf8(e.bytes).ok \/ BadHex(e.bytes))
    \/ /\ e.type = "start" /\ e.name = "sd"
       /\ \/ BadNumeric(e.attrs)
          \/ \E i \in 1..Len(Yielded(e.attrs)) :
                ~unescape_value(Yielded(e.attrs)[i].val).ok
    \/ /\ e.type = "start" /\ e.name = "sdl"
       /\ \E i \in 1..Len(Yielded(e.attrs)) :
             /\ Yielded(e.attrs)[i].key = "deviceId"
             /\ ~unescape_value(Yielded(e.attrs)[i].val).ok

C18_Terminates ==
    /\ <>(result # None)
    /\ [][/\ pc = "loop" => n_events' = n_events + 1 /\ n_events < Len(script[1])
          /\ (pc = "loop" /\ ErrorEvent(NextEvent))
                => pc' = "returned" /\ ReturnedErr' /\ result'[1].val = <<>>
          /\ (pc = "loop" /\ NextEvent.type = "eof")
                => pc' = "returned" /\ result' = Some(Ok(records))
          /\ (pc = "loop" /\ ~ErrorEvent(NextEvent) /\ NextEvent.type # "eof")
                => pc' = "loop" /\ result' = None
          /\ pc \in {"returned", "done"}
                => n_events' = n_events /\ result' = result /\ pc' = "done"]_vars

\* the parse has failed at the first event, a text that is not hexadecimal,
\* with a start tag and the end of the input left in the stream
C18_Witness ==
    /\ pc = "done"
    /\ ReturnedErr
    /\ script # None
    /\ n_events = 1
    /\ Len(script[1]) = 3
    /\ script[1][1] = EvText(<<"4", "g">>)
    /\ script[1][2].type = "start"

(***************************************************************************)
(* C19: a step that reads a self-closing element, sd or sdl, with whatever *)
(* attributes, goes on and leaves records, current_sd and current_device   *)
(* as they were: no record is pushed for a self-closing sd, and the        *)
(* deviceId of a self-closing sdl is not taken.                            *)
(***************************************************************************)
C19_EmptyElementIgnored ==
    [][(Delivered /\ NextEvent.type = "empty")
          => /\ pc' = "loop"
             /\ result' = None
             /\ records' = records
             /\ current_sd' = current_sd
             /\ current_device' = current_device]_vars

\* after <sdl deviceId="X"> and a self-closing sdl with another deviceId
C19_Witness ==
    /\ script # None
    /\ script[1][1] = EvStart("sdl", <<Attr("deviceId", DevX)>>)
    /\ script[1][2] = EvEmpty("sdl", <<Attr("deviceId", DevLt)>>)
    /\ n_events = 2
    /\ current_device = <<"X">>

(***************************************************************************)
(* C20: a step that reads an sd start tag whose attributes are all valid   *)
(* goes on, whichever of ts, rssi, snr, phy and type the tag lacks; and    *)
(* where that tag was the first event of the stream or came right after an *)
(* sd end tag, and only texts and other events that open or close nothing  *)
(* came between it and its end tag, the record pushed at the end tag has 0 *)
(* in each of ts, rssi and snr, and the empty string in each of phy and    *)
(* frame_type, for which the tag has no attribute.                         *)
(***************************************************************************)
Default(key) == IF key \in {"ts", "rssi", "snr"} THEN 0 ELSE <<>>

IsSdStart(e) == e.type = "start" /\ e.name = "sd"
IsSdEnd(e) == e.type = "end" /\ e.name = "sd"

\* event j is an sd start tag that is the first event or follows an sd end
\* tag, and nothing is opened or closed between it and event i
FreshOpen(j, i) ==
    /\ j < i
    /\ IsSdStart(script[1][j])
    /\ j = 1 \/ IsSdEnd(script[1][j - 1])
    /\ \A k \in (j + 1)..(i - 1) : script[1][k].type \in {"text", "other", "empty"}

C20_MissingAttributeDefaults ==
    [][/\ (Delivered /\ IsSdStart(NextEvent) /\ ~ErrorEvent(NextEvent))
            => pc' = "loop" /\ result' = None
       /\ (Delivered /\ SdEndStep)
            => \A j \in 1..n_events :
                  FreshOpen(j, n_events + 1)
                     => \A key \in SdKeys :
                           Occurrences(script[1][j].attrs, key) = {}
                              => FieldOf(Last(records'), key) = Default(key)]_vars

\* the second sd element, after the end tag of the first, has no ts
C20_Witness ==
    /\ script # None
    /\ Len(script[1]) = 7
    /\ script[1][2] = EvStart("sd", GoodSd)
    /\ script[1][3] = EvEnd("sd")
    /\ script[1][4] = EvStart("sd", Without(GoodSd2, "ts"))
    /\ n_events = 5
    /\ Len(records) = 2
    /\ records[1].ts = 1
    /\ records[2].ts = 0
    /\ records[2].rssi = -20

=============================================================================
